---- MODULE Spec2Model ----
(***************************************************************************)
(* A model of the reconciliation-and-repair pipeline of Parserr:           *)
(*   - FixFailedShows / loadFailedShows / addPageToHistory (renamer.go),   *)
(*   - API.GetHistory, API.ExecuteCommand, API.ExecuteCommandAndWait,      *)
(*     API.GetCommandStatus (the api package, second half of renamer.go),  *)
(*   - CleanFixedShows (parser/clean.go),                                  *)
(*   - Show.guessFileName, Show.guessFinalName, Show.FixNaming,            *)
(*     locationOfFile and moveFromTo (renamer.go).                         *)
(* The program is sequential.  One behaviour of the model is one call of   *)
(* one entry point (comp), on inputs drawn in Init; the remote server and  *)
(* the file system answer nondeterministically inside the actions.         *)
(***************************************************************************)
EXTENDS Integers, Sequences, FiniteSets, TLC

(* ------------------------------ bounds -------------------------------- *)
\* longest download queue the server returns
MaxQueue == 2
\* most records the server's history holds
MaxHist == 3
\* records on one full history page (the code asks for pageSize=10)
PageRecs == 2
\* highest history page number the model counts exactly
PageCap == 4

(* ------------------------- program constants -------------------------- *)
StatusCompleted == "Completed"
TrackedDownloadStatusWarning == "Warning"

(* ------------------------------ helpers ------------------------------- *)
SeqsUpTo(S, n) == UNION {[1..k -> S] : k \in 0..n}

Min(a, b) == IF a < b THEN a ELSE b

(* ------------------------------ inputs -------------------------------- *)
\* (download id, season, episode) triples the queue and the history use
Keys ==
    { [DownloadID |-> "a", SeasonNumber |-> 1, EpisodeNumber |-> 1],
      [DownloadID |-> "b", SeasonNumber |-> 1, EpisodeNumber |-> 1],
      [DownloadID |-> "a", SeasonNumber |-> 2, EpisodeNumber |-> 2] }

KeyA == [DownloadID |-> "a", SeasonNumber |-> 1, EpisodeNumber |-> 1]

\* a queue element without its id: status, tracked status and key
QueueShapes ==
    { [Status |-> StatusCompleted, TrackedDownloadStatus |-> TrackedDownloadStatusWarning,
       DownloadID |-> k.DownloadID, SeasonNumber |-> k.SeasonNumber,
       EpisodeNumber |-> k.EpisodeNumber] : k \in Keys }
    \cup
    { [Status |-> st[1], TrackedDownloadStatus |-> st[2],
       DownloadID |-> KeyA.DownloadID, SeasonNumber |-> KeyA.SeasonNumber,
       EpisodeNumber |-> KeyA.EpisodeNumber] :
         st \in { <<StatusCompleted, "Ok">>, <<"Downloading", TrackedDownloadStatusWarning>>,
                  <<"Downloading", "Ok">> } }

\* the queue as GetQueue returns it: element n carries the queue id n
MkQueue(shapes) ==
    [n \in DOMAIN shapes |->
        [ID |-> n, Status |-> shapes[n].Status,
         TrackedDownloadStatus |-> shapes[n].TrackedDownloadStatus,
         DownloadID |-> shapes[n].DownloadID,
         SeasonNumber |-> shapes[n].SeasonNumber,
         EpisodeNumber |-> shapes[n].EpisodeNumber]]

Queues == {MkQueue(s) : s \in SeqsUpTo(QueueShapes, MaxQueue)}

Histories == SeqsUpTo(Keys, MaxHist)

VARIABLES
    comp,          \* the entry point this behaviour runs
    pc,            \* position in the running function
    srvQueue,      \* server: the download queue
    srvHistory,    \* server: all history records, newest first
    srvEchoSize,   \* server: page size reported on a page with no records
    queue,         \* loadFailedShows: queue
    i,             \* loadFailedShows: index of the queue entry in hand (1-based)
    history,       \* loadFailedShows: history (Page, Records)
    shows,         \* loadFailedShows / FixFailedShows: shows
    err,           \* error the entry point returned ("nil" when none)
    requested,     \* history pages requested so far, in order
    extra,         \* pages fetched by addPageToHistory for the entry in hand
    fetchedFor,    \* queue ids on whose behalf addPageToHistory was called
    exhaustedAt,   \* queue id in hand when the source reported no more pages
    fixLog,        \* FixFailedShows: what FixNaming returned, per show
    srvCmds,       \* server: number of commands accepted (the last command id)
    retries,       \* ExecuteCommandAndWait: retries
    wi,            \* ExecuteCommandAndWait: the loop variable i
    totalWait,     \* ExecuteCommandAndWait: totalWait, in seconds
    cs,            \* ExecuteCommandAndWait: the result cs
    werr,          \* ExecuteCommandAndWait: the result err
    submissions,   \* calls of ExecuteCommand so far
    polls,         \* calls of GetCommandStatus so far
    pollsThis,     \* calls of GetCommandStatus since the last submission
    queried,       \* command id the last GetCommandStatus asked about
    completedAt,   \* submissions and polls made when state completed was first read
    auth,          \* "denied" once a request is answered 401, "retried" once a
                   \* request follows a 401 ("none" before)
    mediaFiles,    \* CleanFixedShows: mediaFiles, with the server's answers per item
    ci,            \* CleanFixedShows: index of the item in hand (1-based)
    errors,        \* CleanFixedShows: errors
    attempts,      \* queue ids DeleteQueueItem was called with, in order
    recv,          \* FixNaming / guessFinalName: the receiver s
    names,         \* what the calls of guessFinalName returned, in order
    fs,            \* the file system: the content of every file, by path
    fs0,           \* the file system when FixNaming was called
    oldPath,       \* FixNaming: oldPath (moveFromTo: sourcePath)
    newPath        \* FixNaming: newPath (moveFromTo: destPath)

loadVars == <<queue, i, history, shows, requested, extra, fetchedFor,
              exhaustedAt, fixLog>>

srvVars == <<srvQueue, srvHistory, srvEchoSize>>

waitVars == <<srvCmds, retries, wi, totalWait, cs, werr, submissions, polls,
              pollsThis, queried, completedAt, auth>>

cleanVars == <<mediaFiles, ci, errors, attempts>>

nameVars == <<recv, names>>

fileVars == <<fs, fs0, oldPath, newPath>>

fixVars == <<nameVars, fileVars>>

vars == <<comp, pc, err, srvVars, loadVars, waitVars, cleanVars, fixVars>>

(* ---------------------------- the server ------------------------------ *)
\* number of history pages that hold records
NumPages == (Len(srvHistory) + PageRecs - 1) \div PageRecs

PastEnd(page) == (page - 1) * PageRecs >= Len(srvHistory)

\* the body the server sends for /api/history?page=<page>&pageSize=<PageRecs>
HistoryPage(page) ==
    LET lo == (page - 1) * PageRecs + 1
        hi == Min(page * PageRecs, Len(srvHistory))
    IN  [Page |-> page,
         PageSize |-> IF PastEnd(page) THEN srvEchoSize ELSE PageRecs,
         Records |-> IF PastEnd(page) THEN << >> ELSE SubSeq(srvHistory, lo, hi)]

Transports == {"ok", "net", "401"}

(* ------------------------------ api ----------------------------------- *)
\* get: the body, or the transport error
get(transport) ==
    CASE transport = "ok" -> "nil"
      [] transport = "net" -> "network error"
      [] transport = "401" -> "authorization invalid"

\* API.GetHistory
GetHistory(page, transport) ==
    IF get(transport) # "nil"
    THEN [history |-> [Page |-> 0, PageSize |-> 0, Records |-> << >>],
          err |-> get(transport)]
    ELSE IF HistoryPage(page).PageSize = 0
         THEN [history |-> HistoryPage(page),
               err |-> "history fetched 0 results, no more items"]
         ELSE [history |-> HistoryPage(page), err |-> "nil"]

(* --------------------------- loadFailedShows -------------------------- *)
\* the skip test with && in place of ||: either condition alone lets an entry in
IsCandidateEither(q) ==
    ~ (q.Status # StatusCompleted
       /\ q.TrackedDownloadStatus # TrackedDownloadStatusWarning)

\* isNotCompleted || isNotFailed, negated
IsCandidate(q) ==
    ~ (q.Status # StatusCompleted
       \/ q.TrackedDownloadStatus # TrackedDownloadStatusWarning)

\* sameDownloadID && sameSeason && sameEpisode
SameShow(q, he) ==
    /\ q.DownloadID = he.DownloadID
    /\ q.SeasonNumber = he.SeasonNumber
    /\ q.EpisodeNumber = he.EpisodeNumber

\* the range loop over history.Records: one Show appended per matching record
RECURSIVE ScanRecords(_, _)
ScanRecords(q, records) ==
    IF records = << >> THEN << >>
    ELSE LET he == Head(records)
             rest == ScanRecords(q, Tail(records))
         IN  IF SameShow(q, he)
             THEN <<[HistoryRecord |-> he, QueueElement |-> q,
                     HasBeenRenamed |-> FALSE]>> \o rest
             ELSE rest

\* addPageToHistory
addPageToHistory(h, transport) ==
    LET newPage == h.Page + 1
        got == GetHistory(newPage, transport)
    IN  IF got.err # "nil"
        THEN [h |-> h, err |-> got.err]
        ELSE [h |-> [Page |-> newPage,
                     Records |-> h.Records \o got.history.Records],
              err |-> "nil"]

\* lines 39-47: GetQueue, GetHistory(1)
LoadStart ==
    /\ comp = "FixFailedShows" /\ pc = "start"
    /\ \E tq \in Transports, th \in Transports :
         IF get(tq) # "nil"
         THEN /\ pc' = "returned" /\ err' = get(tq)
              /\ UNCHANGED loadVars
         ELSE LET got == GetHistory(1, th)
              IN  /\ queue' = srvQueue
                  /\ requested' = Append(requested, 1)
                  /\ IF got.err # "nil"
                     THEN /\ pc' = "returned" /\ err' = got.err
                          /\ UNCHANGED history
                     ELSE /\ pc' = "loop" /\ UNCHANGED err
                          /\ history' = [Page |-> got.history.Page,
                                         Records |-> got.history.Records]
                  /\ UNCHANGED <<i, shows, extra, fetchedFor, exhaustedAt, fixLog>>
    /\ UNCHANGED <<comp, srvVars, fixVars, waitVars, cleanVars>>

\* lines 48-53: an entry that is not a candidate is passed over
LoadSkip ==
    /\ comp = "FixFailedShows" /\ pc = "loop"
    /\ i <= Len(queue)
    /\ ~ IsCandidate(queue[i])
    /\ i' = i + 1 /\ extra' = 0
    /\ UNCHANGED <<comp, pc, srvVars, fixVars, queue, history, shows, err, requested,
                   fetchedFor, exhaustedAt, fixLog, waitVars, cleanVars>>

\* lines 54-66: the candidate in hand is looked up in the records in memory
LoadScan ==
    /\ comp = "FixFailedShows" /\ pc = "loop"
    /\ i <= Len(queue)
    /\ IsCandidate(queue[i])
    /\ LET emitted == ScanRecords(queue[i], history.Records)
       IN  IF emitted # << >>
           THEN /\ shows' = shows \o emitted
                /\ i' = i + 1 /\ extra' = 0
                /\ UNCHANGED pc
           ELSE /\ pc' = "fetch"
                /\ UNCHANGED <<shows, i, extra>>
    /\ UNCHANGED <<comp, srvVars, fixVars, queue, history, err, requested, fetchedFor,
                   exhaustedAt, fixLog, waitVars, cleanVars>>

\* lines 65-71: i--, addPageToHistory, and the loop's i++ (the same entry again)
LoadFetch ==
    /\ comp = "FixFailedShows" /\ pc = "fetch"
    /\ history.Page < PageCap
    /\ \E t \in Transports :
         LET r == addPageToHistory(history, t)
         IN  /\ requested' = Append(requested, history.Page + 1)
             /\ extra' = extra + 1
             /\ fetchedFor' = fetchedFor \cup {queue[i].ID}
             /\ IF r.err # "nil"
                THEN /\ pc' = "returned" /\ err' = r.err
                     /\ exhaustedAt' = IF t = "ok" THEN queue[i].ID ELSE exhaustedAt
                     /\ UNCHANGED history
                ELSE /\ pc' = "loop" /\ history' = r.h
                     /\ UNCHANGED <<err, exhaustedAt>>
    /\ UNCHANGED <<comp, srvVars, fixVars, queue, i, shows, fixLog, waitVars, cleanVars>>

\* line 73: return shows, nil; FixFailedShows goes on to its own loop
LoadReturn ==
    /\ comp = "FixFailedShows" /\ pc = "loop"
    /\ i > Len(queue)
    /\ pc' = "fix"
    /\ UNCHANGED <<comp, srvVars, fixVars, loadVars, err, waitVars, cleanVars>>

(* --------------------------- FixFailedShows --------------------------- *)
\* what the steps of FixNaming can return: nil, or the error of the step that failed
FixOutcomes == {"nil", "guessFileName", "locationOfFile", "guessFinalName", "moveFromTo"}

\* Show.FixNaming on its receiver s, a copy of the caller's Show
FixNaming(s, outcome) ==
    IF outcome # "nil"
    THEN [s |-> s, err |-> outcome]
    ELSE [s |-> [s EXCEPT !.HasBeenRenamed = TRUE], err |-> "nil"]

\* lines 29-32: where control goes when FixNaming returned ferr: the error is
\* logged and the loop goes on
AfterFix(ferr) == "fix"

\* lines 28-33: for _, s := range shows { err = s.FixNaming() ... }
\* s is the loop's copy of shows[k]; the slice element is not written
FixOne ==
    /\ comp = "FixFailedShows" /\ pc = "fix"
    /\ Len(fixLog) < Len(shows)
    /\ \E outcome \in FixOutcomes :
         LET k == Len(fixLog) + 1
             r == FixNaming(shows[k], outcome)
         IN  /\ fixLog' = Append(fixLog, [id |-> shows[k].QueueElement.ID,
                                          nil |-> r.err = "nil",
                                          renamed |-> r.s.HasBeenRenamed])
             /\ pc' = AfterFix(r.err)
             /\ err' = IF AfterFix(r.err) = "returned" THEN r.err ELSE err
    /\ UNCHANGED <<comp, srvVars, fixVars, queue, i, history, shows, requested,
                   extra, fetchedFor, exhaustedAt, waitVars, cleanVars>>

\* lines 29 and 179-180: FixNaming does not return: filepath.Walk hands the
\* callback of locationOfFile a nil info when Lstat fails, on the root or on
\* an entry, and info.Name() panics; nothing recovers the panic
FixPanic ==
    /\ comp = "FixFailedShows" /\ pc = "fix"
    /\ Len(fixLog) < Len(shows)
    /\ pc' = "panicked"
    /\ UNCHANGED <<comp, err, srvVars, fixVars, loadVars, waitVars, cleanVars>>

\* line 34: return shows, nil
FixReturn ==
    /\ comp = "FixFailedShows" /\ pc = "fix"
    /\ Len(fixLog) = Len(shows)
    /\ pc' = "returned" /\ err' = "nil"
    /\ UNCHANGED <<comp, srvVars, fixVars, loadVars, waitVars, cleanVars>>

(* ----------------------- ExecuteCommandAndWait ------------------------ *)
\* MaxTime, in seconds
MaxTime == 30
\* CheckInterval, in seconds
CheckInterval == 5
DefaultRetries == 3
\* largest retries argument the model calls ExecuteCommandAndWait with
MaxRetries == 3

CommandStateCompleted == "completed"

\* the zero value of CommandStatus
NoCommand == [ID |-> 0, State |-> ""]

\* post: the body, or the transport error with no body
post(transport) == get(transport)

\* API.ExecuteCommand: post's error is overwritten by json.Unmarshal's, which
\* fails on the empty body post returns with any error
ExecuteCommand(transport, id) ==
    IF post(transport) # "nil"
    THEN [cs |-> NoCommand, err |-> "unexpected end of JSON input"]
    ELSE [cs |-> [ID |-> id, State |-> "queued"], err |-> "nil"]

\* API.GetCommandStatus: body is the CommandStatus the server's answer decodes to
GetCommandStatus(transport, body) ==
    IF get(transport) # "nil"
    THEN [cs |-> NoCommand, err |-> get(transport)]
    ELSE [cs |-> body, err |-> "nil"]

\* what the server can answer for /api/command/<id>: the status of a command it
\* accepted, or for an unknown id an error document, which decodes to a
\* CommandStatus with no id and no state
StatusBodies(id) ==
    IF id \in 1..srvCmds
    THEN {[ID |-> id, State |-> st] : st \in {"started", "failed", CommandStateCompleted}}
    ELSE {NoCommand}

\* the loop test off by one: i <= retries
MoreAttemptsInclusive(n, r) == n <= r

\* i < retries
MoreAttempts(n, r) == n < r

\* the state compared with the queue's StatusCompleted ("Completed")
IsCompletedQueueStatus(r) == r.err = "nil" /\ r.cs.State = StatusCompleted

\* err == nil && cs.State == CommandStateCompleted
IsCompleted(r) == r.err = "nil" /\ r.cs.State = CommandStateCompleted

\* where control goes when ExecuteCommandAndWait returns
AfterWait == IF comp = "CleanFixedShows" THEN "rescanned" ELSE "returned"

\* auth after one more request, answered over transport t
Note401(t) ==
    CASE auth # "none" -> "retried"
      [] t = "401" -> "denied"
      [] OTHER -> "none"

\* the submission's error not looked at
SubmitFailedIgnored(r) == FALSE

\* line 487: err != nil
SubmitFailed(r) == r.err # "nil"

\* lines 485-490: the loop head, ExecuteCommand, continue on error
WaitSubmit ==
    /\ pc = "submit"
    /\ MoreAttempts(wi, retries)
    /\ \E t \in Transports :
         LET r == ExecuteCommand(t, srvCmds + 1)
         IN  /\ cs' = r.cs /\ werr' = r.err
             /\ submissions' = submissions + 1
             /\ auth' = Note401(t)
             /\ pollsThis' = 0
             /\ srvCmds' = IF r.err = "nil" THEN srvCmds + 1 ELSE srvCmds
             /\ IF SubmitFailed(r)
                THEN /\ wi' = wi + 1
                     /\ UNCHANGED <<pc, totalWait>>
                ELSE /\ totalWait' = CheckInterval
                     /\ pc' = "poll"
                     /\ UNCHANGED wi
    /\ UNCHANGED <<comp, err, srvVars, fixVars, loadVars, cleanVars, retries, polls,
                   queried, completedAt>>

\* lines 491-505: one turn of the polling loop, and the loop's exit when
\* totalWait passes MaxTime
WaitPoll ==
    /\ pc = "poll"
    /\ totalWait <= MaxTime
    /\ \E t \in Transports, body \in StatusBodies(cs.ID) :
         LET r == GetCommandStatus(t, body)
         IN  /\ cs' = r.cs /\ werr' = r.err
             /\ queried' = cs.ID
             /\ polls' = polls + 1
             /\ pollsThis' = pollsThis + 1
             /\ auth' = Note401(t)
             /\ completedAt' =
                  IF completedAt.polls = 0 /\ t = "ok"
                     /\ body.State = CommandStateCompleted
                  THEN [submissions |-> submissions, polls |-> polls + 1]
                  ELSE completedAt
             /\ IF IsCompleted(r)
                THEN /\ pc' = AfterWait
                     /\ UNCHANGED <<totalWait, wi>>
                ELSE /\ totalWait' = totalWait + CheckInterval
                     /\ IF totalWait + CheckInterval <= MaxTime
                        THEN UNCHANGED <<pc, wi>>
                        ELSE wi' = wi + 1 /\ pc' = "submit"
    /\ UNCHANGED <<comp, err, srvVars, fixVars, loadVars, cleanVars, srvCmds, retries,
                   submissions>>

\* line 507: the retries are spent
WaitGiveUp ==
    /\ pc = "submit"
    /\ ~ MoreAttempts(wi, retries)
    /\ werr' = "timeout checking command, not completed"
    /\ pc' = AfterWait
    /\ UNCHANGED <<comp, err, srvVars, fixVars, loadVars, cleanVars, srvCmds, retries, wi,
                   totalWait, cs, submissions, polls, pollsThis, queried,
                   completedAt, auth>>

(* --------------------------- CleanFixedShows -------------------------- *)
\* most items CleanFixedShows is called with
MaxItems == 3

\* an item and what the server will answer about it: whether the rescan
\* detected it, and the status code of DELETE /api/queue/<id> (0: the request
\* got no response)
ItemShapes ==
    { [HasBeenRenamed |-> FALSE, Detected |-> TRUE,  DeleteStatus |-> 500],
      [HasBeenRenamed |-> TRUE,  Detected |-> FALSE, DeleteStatus |-> 500],
      [HasBeenRenamed |-> TRUE,  Detected |-> TRUE,  DeleteStatus |-> 200],
      [HasBeenRenamed |-> TRUE,  Detected |-> TRUE,  DeleteStatus |-> 500],
      [HasBeenRenamed |-> TRUE,  Detected |-> TRUE,  DeleteStatus |-> 0] }

MkMedia(shapes) ==
    [n \in DOMAIN shapes |->
        [QueueElement |-> [ID |-> n], HasBeenRenamed |-> shapes[n].HasBeenRenamed,
         Detected |-> shapes[n].Detected, DeleteStatus |-> shapes[n].DeleteStatus]]

MediaLists == {MkMedia(s) : s \in SeqsUpTo(ItemShapes, MaxItems)}

\* Media.HasBeenDetected: the presence check after the rescan
HasBeenDetected(s) == s.Detected

\* API.DeleteQueueItem
DeleteQueueItem(s) ==
    CASE s.DeleteStatus = 0 -> "network error"
      [] s.DeleteStatus # 200 -> "error deleting item from queue, status code 500"
      [] OTHER -> "nil"

\* the test without the presence check
ShouldDeleteRenamed(s) == s.HasBeenRenamed

\* s.HasBeenRenamed && s.HasBeenDetected(a)
ShouldDelete(s) == s.HasBeenRenamed /\ HasBeenDetected(s)

\* the range loop left at the first deletion that fails
NextItemStopOnError(n, derr) == IF derr # "nil" THEN Len(mediaFiles) + 1 ELSE n + 1

\* the item the range loop takes after item n, whose deletion returned derr
NextItem(n, derr) == n + 1

\* lines 12-13: the rescan command is submitted and waited for
CleanStart ==
    /\ comp = "CleanFixedShows" /\ pc = "start"
    /\ retries' = DefaultRetries
    /\ pc' = "submit"
    /\ UNCHANGED <<comp, err, srvVars, fixVars, loadVars, cleanVars, srvCmds, wi, totalWait,
                   cs, werr, submissions, polls, pollsThis, queried, completedAt,
                   auth>>

\* the rescan's error not looked at
RescanFailedIgnored(e) == FALSE

\* line 14: err != nil
RescanFailed(e) == e # "nil"

\* lines 14-17: the rescan's error is returned
CleanRescanned ==
    /\ comp = "CleanFixedShows" /\ pc = "rescanned"
    /\ IF RescanFailed(werr)
       THEN pc' = "returned" /\ err' = werr
       ELSE pc' = "items" /\ UNCHANGED err
    /\ UNCHANGED <<comp, srvVars, fixVars, loadVars, waitVars, cleanVars>>

\* lines 18-32: one item of the range loop
CleanItem ==
    /\ comp = "CleanFixedShows" /\ pc = "items"
    /\ ci <= Len(mediaFiles)
    /\ LET s == mediaFiles[ci]
       IN  IF ShouldDelete(s)
           THEN LET derr == DeleteQueueItem(s)
                IN  /\ attempts' = Append(attempts, s.QueueElement.ID)
                    /\ errors' = IF derr # "nil" THEN Append(errors, derr) ELSE errors
                    /\ ci' = NextItem(ci, derr)
           ELSE /\ ci' = ci + 1
                /\ UNCHANGED <<attempts, errors>>
    /\ UNCHANGED <<comp, pc, err, srvVars, fixVars, loadVars, waitVars, mediaFiles>>

\* lines 33-36: the joined errors, or nil
CleanReturn ==
    /\ comp = "CleanFixedShows" /\ pc = "items"
    /\ ci > Len(mediaFiles)
    /\ err' = IF Len(errors) > 0 THEN "joined errors" ELSE "nil"
    /\ pc' = "returned"
    /\ UNCHANGED <<comp, srvVars, fixVars, loadVars, waitVars, cleanVars>>

(* ------------------------- strings and names -------------------------- *)
\* A string is a sequence of one-character strings.

\* the regexp class [.\-_ ]
Separators == {".", "-", "_", " "}

\* the regexp class [\-_0-9sSeExX]
TagChars == {"-", "_", "0", "1", "2", "3", "4", "5", "6", "7", "8", "9",
             "s", "S", "e", "E", "x", "X"}

\* the repetition {2,10} of the tag class
MinTag == 2
MaxTag == 10

Digit(d) == <<"0", "1", "2", "3", "4", "5", "6", "7", "8", "9">>[d + 1]

\* fmt's %d of a number that is not negative
RECURSIVE Itoa(_)
Itoa(n) == IF n < 10 THEN <<Digit(n)>> ELSE Itoa(n \div 10) \o <<Digit(n % 10)>>

\* fmt's %.2d: at least two digits, zeros in front
Pad2(n) == IF n < 10 THEN <<"0">> \o Itoa(n) ELSE Itoa(n)

\* sub occurs in t at position p
OccursAt(t, sub, p) ==
    /\ p >= 1 /\ p + Len(sub) - 1 <= Len(t)
    /\ \A k \in 1..Len(sub) : t[p + k - 1] = sub[k]

\* strings.Index, 1-based; 0 when sub does not occur
Index(t, sub) ==
    IF \E p \in 1..(Len(t) + 1) : OccursAt(t, sub, p)
    THEN CHOOSE p \in 1..(Len(t) + 1) :
            /\ OccursAt(t, sub, p)
            /\ \A q \in 1..(p - 1) : ~ OccursAt(t, sub, q)
    ELSE 0

\* strings.Replace(t, old, new, 1)
Replace(t, old, new) ==
    IF Index(t, old) = 0 THEN t
    ELSE SubSeq(t, 1, Index(t, old) - 1) \o new
         \o SubSeq(t, Index(t, old) + Len(old), Len(t))

\* the tag lengths the repetition starting at 3 would accept
TagLensFromThree(t, p) ==
    {n \in 3..MaxTag :
        /\ p + n + 1 <= Len(t)
        /\ t[p] \in Separators
        /\ \A k \in 1..n : t[p + k] \in TagChars
        /\ t[p + n + 1] \in Separators}

\* the lengths n for which the final-name regexp matches t from position p:
\* a separator, n tag characters, a separator
TagLens(t, p) ==
    {n \in MinTag..MaxTag :
        /\ p + n + 1 <= Len(t)
        /\ t[p] \in Separators
        /\ \A k \in 1..n : t[p + k] \in TagChars
        /\ t[p + n + 1] \in Separators}

\* regex.MatchString(t) for the final-name regexp
MatchString(t) == \E p \in 1..Len(t) : TagLens(t, p) # {}

\* regex.FindString(t) for the final-name regexp: the leftmost match, and at
\* that position the longest tag the greedy repetition can keep; "" when
\* there is no match
FindString(t) ==
    IF ~ MatchString(t) THEN << >>
    ELSE LET p == CHOOSE q \in 1..Len(t) :
                     /\ TagLens(t, q) # {}
                     /\ \A r \in 1..(q - 1) : TagLens(t, r) = {}
             n == CHOOSE m \in TagLens(t, p) : \A l \in TagLens(t, p) : l <= m
         IN  SubSeq(t, p, p + n + 1)

\* the canonical tag with no separator after it
CanonicalTagOpen(season, episode) ==
    <<".", "S">> \o Pad2(season) \o <<"E">> \o Pad2(episode)

\* fmt.Sprintf(".S%.2dE%.2d.", season, episode)
CanonicalTag(season, episode) ==
    <<".", "S">> \o Pad2(season) \o <<"E">> \o Pad2(episode) \o <<".">>

\* Show.guessFinalName on its receiver s
guessFinalName(s) ==
    IF Len(s.StatusMessages) = 1
    THEN [name |-> s.SourceTitle, err |-> "nil"]
    ELSE IF ~ MatchString(s.SourceTitle)
         THEN [name |-> << >>, err |-> "unable to guess final episode name"]
         ELSE [name |-> Replace(s.SourceTitle, FindString(s.SourceTitle),
                                CanonicalTag(s.SeasonNumber, s.EpisodeNumber)),
               err |-> "nil"]

\* the file-name regexp "%d.{0,4}%d" matches t: the season's digits, at most
\* four characters, the episode's digits
FileNameMatch(t, season, episode) ==
    \E p \in 1..Len(t), gap \in 0..4 :
        /\ OccursAt(t, Itoa(season), p)
        /\ OccursAt(t, Itoa(episode), p + Len(Itoa(season)) + gap)

\* Show.guessFileName on its receiver s
guessFileName(s) ==
    IF Len(s.StatusMessages) = 1
    THEN [name |-> s.StatusMessages[1], err |-> "nil"]
    ELSE LET hits == {k \in DOMAIN s.StatusMessages :
                         FileNameMatch(s.StatusMessages[k], s.SeasonNumber,
                                       s.EpisodeNumber)}
         IN  IF hits = {}
             THEN [name |-> << >>, err |-> "imposible to guess file name"]
             ELSE [name |-> s.StatusMessages[CHOOSE k \in hits :
                                                \A l \in hits : k <= l],
                   err |-> "nil"]

(* --------------------------- guessFinalName --------------------------- *)
\* longest source title built from TitleChars
MaxTitle == 5
\* longest run of digits between two dots in a source title
MaxRun == 12

\* a letter, a separator outside the tag class, one inside it, and a digit
TitleChars == {"a", ".", "-", "1"}

\* "a.", n digits, ".a"
RunTitle(n) == <<"a", ".">> \o [k \in 1..n |-> "1"] \o <<".", "a">>

SourceTitles == SeqsUpTo(TitleChars, MaxTitle) \cup {RunTitle(n) : n \in 0..MaxRun}

\* (season, episode) of the receiver
Episodes == {<<1, 2>>, <<12, 5>>, <<2023, 1001>>, <<2023, 10011>>}

\* the receiver before any input is drawn
NoShow ==
    [SourceTitle |-> << >>, StatusMessages |-> << >>, SeasonNumber |-> 0,
     EpisodeNumber |-> 0, SeriesPath |-> "", HasBeenRenamed |-> FALSE]

\* receivers guessFinalName is called on: zero, one or two status messages
NameInputs ==
    { [NoShow EXCEPT !.SourceTitle = t,
                     !.StatusMessages = [k \in 1..n |-> <<"a">>],
                     !.SeasonNumber = e[1], !.EpisodeNumber = e[2]] :
        t \in SourceTitles, n \in 0..2, e \in Episodes }

\* lines 96-113, called on the receiver
GuessFinalNameFirst ==
    /\ comp = "guessFinalName" /\ pc = "start"
    /\ LET r == guessFinalName(recv)
       IN  /\ names' = Append(names, r)
           /\ err' = r.err
           /\ pc' = IF r.err = "nil" THEN "again" ELSE "returned"
    /\ UNCHANGED <<comp, srvVars, loadVars, waitVars, cleanVars, recv, fileVars>>

\* lines 96-113, called once more with the name just returned as source title
GuessFinalNameAgain ==
    /\ comp = "guessFinalName" /\ pc = "again"
    /\ LET r == guessFinalName([recv EXCEPT !.SourceTitle = names[1].name])
       IN  /\ names' = Append(names, r)
           /\ err' = r.err
           /\ pc' = "returned"
    /\ UNCHANGED <<comp, srvVars, loadVars, waitVars, cleanVars, recv, fileVars>>

(* ------------------------ FixNaming, moveFromTo ----------------------- *)
\* longest file content, in bytes
MaxBytes == 2

\* a path is <<directory, file name>>
NoPath == <<"", << >>>>

\* the download folder and a folder inside it
UnderRoot == {"dl", "dl/tv"}

\* Series.Path: outside the download folder, or inside it
SeriesPaths == {"tv", "dl/tv"}

\* status message titles: "12.m" and "a"
MsgTitles == {<<"1", "2", ".", "m">>, <<"a">>}

\* source titles: "12", "a.1x2.b" and "a"
FixTitles == {<<"1", "2">>, <<"a", ".", "1", "x", "2", ".", "b">>, <<"a">>}

Contents == SeqsUpTo({1}, MaxBytes)

\* what a file already at the destination holds
Stale == <<9>>

\* filepath.Ext: from the last dot of the name on, "" when it has none
Ext(name) ==
    IF \E p \in DOMAIN name : name[p] = "."
    THEN LET p == CHOOSE q \in DOMAIN name :
                     /\ name[q] = "."
                     /\ \A r \in (q + 1)..Len(name) : name[r] # "."
         IN  SubSeq(name, p, Len(name))
    ELSE << >>

\* locationOfFile: the files under root that the walk can stop at
locationOfFile(files, filename) ==
    {p \in DOMAIN files : p[1] \in UnderRoot /\ p[2] = filename}

\* path.Join(s.QueueElement.Series.Path, finalName+filepath.Ext(oldPath))
NewPath(s, finalName, old) == <<s.SeriesPath, finalName \o Ext(old[2])>>

\* receivers FixNaming is called on
FixInputs ==
    { [NoShow EXCEPT !.SourceTitle = t, !.StatusMessages = m,
                     !.SeasonNumber = 1, !.EpisodeNumber = 2,
                     !.SeriesPath = sp] :
        t \in FixTitles, m \in SeqsUpTo(MsgTitles, 2), sp \in SeriesPaths }

\* the download folder: empty, or one file
Downloads ==
    {<< >>} \cup
    { [p \in {<<d, n>>} |-> c] : d \in UnderRoot, n \in MsgTitles, c \in Contents }

\* the path FixNaming will move the file at old to, NoPath when a guess fails
PlannedPath(s, old) ==
    IF guessFileName(s).err = "nil" /\ guessFinalName(s).err = "nil"
    THEN NewPath(s, guessFinalName(s).name, old)
    ELSE NoPath

\* the files before the call: the download, and when occupied holds another
\* file where FixNaming will write
Files(s, download, occupied) ==
    LET planned == UNION {{PlannedPath(s, old)} : old \in DOMAIN download}
        added == IF occupied THEN (planned \ {NoPath}) \ DOMAIN download ELSE {}
    IN  [p \in DOMAIN download \cup added |->
            IF p \in DOMAIN download THEN download[p] ELSE Stale]

\* lines 132-136: the receiver after moveFromTo returned merr
AfterMove(s, merr) ==
    IF merr # "nil" THEN s ELSE [s EXCEPT !.HasBeenRenamed = TRUE]

\* os.Lstat inside filepath.Walk, on the root or on an entry
LstatOutcomes == {"ok", "error"}

\* lines 118-131: guessFileName, locationOfFile, guessFinalName, newPath.
\* When Lstat fails, filepath.Walk calls the callback with a nil info, and
\* info.Name() (line 180) panics.
FixNamingStart ==
    /\ comp = "FixNaming" /\ pc = "start"
    /\ LET f == guessFileName(recv)
           g == guessFinalName(recv)
       IN  IF f.err # "nil"
           THEN /\ pc' = "returned" /\ err' = f.err
                /\ UNCHANGED <<oldPath, newPath>>
           ELSE \E lstat \in LstatOutcomes :
                IF lstat = "error"
                THEN /\ pc' = "panicked"
                     /\ UNCHANGED <<err, oldPath, newPath>>
                ELSE IF locationOfFile(fs, f.name) = {}
                THEN /\ pc' = "returned" /\ err' = "doesn't exists inside"
                     /\ UNCHANGED <<oldPath, newPath>>
                ELSE \E old \in locationOfFile(fs, f.name) :
                        IF g.err # "nil"
                        THEN /\ pc' = "returned" /\ err' = g.err
                             /\ UNCHANGED <<oldPath, newPath>>
                        ELSE /\ oldPath' = old
                             /\ newPath' = NewPath(recv, g.name, old)
                             /\ pc' = "open"
                             /\ UNCHANGED err
    /\ UNCHANGED <<comp, srvVars, loadVars, waitVars, cleanVars, nameVars, fs, fs0>>

\* lines 141-144: os.Open(sourcePath)
MoveOpen ==
    /\ comp = "FixNaming" /\ pc = "open"
    /\ \E ok \in BOOLEAN :
         IF ok
         THEN pc' = "create" /\ UNCHANGED <<err, recv>>
         ELSE /\ pc' = "returned"
              /\ err' = "couldn't open source file"
              /\ recv' = AfterMove(recv, "couldn't open source file")
    /\ UNCHANGED <<comp, srvVars, loadVars, waitVars, cleanVars, names, fileVars>>

\* lines 145-149: os.Create(destPath) makes the file, or empties the one there
MoveCreate ==
    /\ comp = "FixNaming" /\ pc = "create"
    /\ \E ok \in BOOLEAN :
         IF ok
         THEN /\ fs' = [p \in DOMAIN fs \cup {newPath} |->
                           IF p = newPath THEN << >> ELSE fs[p]]
              /\ pc' = "copy" /\ UNCHANGED <<err, recv>>
         ELSE /\ pc' = "returned"
              /\ err' = "couldn't open dest file"
              /\ recv' = AfterMove(recv, "couldn't open dest file")
              /\ UNCHANGED fs
    /\ UNCHANGED <<comp, srvVars, loadVars, waitVars, cleanVars, names, fs0,
                   oldPath, newPath>>

\* lines 150-155: io.Copy writes what it reads from the source until the end
\* of the source or the first error
MoveCopy ==
    /\ comp = "FixNaming" /\ pc = "copy"
    /\ \E n \in 0..Len(fs[oldPath]), ok \in BOOLEAN :
         /\ ok => n = Len(fs[oldPath])
         /\ fs' = [fs EXCEPT ![newPath] = SubSeq(fs[oldPath], 1, n)]
         /\ IF ok
            THEN pc' = "remove" /\ UNCHANGED <<err, recv>>
            ELSE /\ pc' = "returned"
                 /\ err' = "writing to output file failed"
                 /\ recv' = AfterMove(recv, "writing to output file failed")
    /\ UNCHANGED <<comp, srvVars, loadVars, waitVars, cleanVars, names, fs0,
                   oldPath, newPath>>

\* lines 156-160 and 132-137: os.Remove(sourcePath), and FixNaming's return
MoveRemove ==
    /\ comp = "FixNaming" /\ pc = "remove"
    /\ \E ok \in BOOLEAN :
         IF ok
         THEN /\ fs' = [p \in DOMAIN fs \ {oldPath} |-> fs[p]]
              /\ err' = "nil"
              /\ recv' = AfterMove(recv, "nil")
         ELSE /\ err' = "Failed removing original file"
              /\ recv' = AfterMove(recv, "Failed removing original file")
              /\ UNCHANGED fs
    /\ pc' = "returned"
    /\ UNCHANGED <<comp, srvVars, loadVars, waitVars, cleanVars, names, fs0,
                   oldPath, newPath>>

(* ------------------------------ the model ----------------------------- *)
Comps == {"FixFailedShows", "ExecuteCommandAndWait", "CleanFixedShows",
          "guessFinalName", "FixNaming"}

Init ==
    /\ comp \in Comps
    /\ pc = IF comp = "ExecuteCommandAndWait" THEN "submit" ELSE "start"
    /\ err = "nil"
    /\ IF comp = "FixFailedShows"
       THEN /\ srvQueue \in Queues
            /\ srvHistory \in Histories
            /\ srvEchoSize \in {0, PageRecs}
       ELSE /\ srvQueue = << >>
            /\ srvHistory = << >>
            /\ srvEchoSize = 0
    /\ queue = << >> /\ i = 1
    /\ history = [Page |-> 0, Records |-> << >>]
    /\ shows = << >>
    /\ requested = << >> /\ extra = 0 /\ fetchedFor = {} /\ exhaustedAt = 0
    /\ fixLog = << >>
    /\ srvCmds = 0
    /\ IF comp = "ExecuteCommandAndWait"
       THEN retries \in 0..MaxRetries
       ELSE retries = 0
    /\ wi = 0 /\ totalWait = 0 /\ cs = NoCommand /\ werr = "nil"
    /\ submissions = 0 /\ polls = 0 /\ pollsThis = 0 /\ queried = 0
    /\ completedAt = [submissions |-> 0, polls |-> 0]
    /\ auth = "none"
    /\ IF comp = "CleanFixedShows"
       THEN mediaFiles \in MediaLists
       ELSE mediaFiles = << >>
    /\ ci = 1 /\ errors = << >> /\ attempts = << >>
    /\ recv \in CASE comp = "guessFinalName" -> NameInputs
                 [] comp = "FixNaming" -> FixInputs
                 [] OTHER -> {NoShow}
    /\ names = << >>
    /\ IF comp = "FixNaming"
       THEN \E download \in Downloads, occupied \in BOOLEAN :
               fs0 = Files(recv, download, occupied)
       ELSE fs0 = << >>
    /\ fs = fs0
    /\ oldPath = NoPath /\ newPath = NoPath

Next ==
    \/ LoadStart
    \/ LoadSkip
    \/ LoadScan
    \/ LoadFetch
    \/ LoadReturn
    \/ FixOne
    \/ FixPanic
    \/ FixReturn
    \/ WaitSubmit
    \/ WaitPoll
    \/ WaitGiveUp
    \/ CleanStart
    \/ CleanRescanned
    \/ CleanItem
    \/ CleanReturn
    \/ GuessFinalNameFirst
    \/ GuessFinalNameAgain
    \/ FixNamingStart
    \/ MoveOpen
    \/ MoveCreate
    \/ MoveCopy
    \/ MoveRemove

Spec == Init /\ [][Next]_vars

\* lines 65-71 once history.Page has reached PageCap.  Every page from PageCap
\* on lies past the last record and is answered alike, so the page numbers from
\* PageCap on are kept as one value: the fetch leaves history as it is, and the
\* same entry is scanned again.
LoadFetchPastCap ==
    /\ comp = "FixFailedShows" /\ pc = "fetch"
    /\ history.Page = PageCap
    /\ PastEnd(PageCap)
    /\ \E t \in Transports :
         LET got == GetHistory(PageCap + 1, t)
         IN  IF got.err # "nil"
             THEN /\ pc' = "returned" /\ err' = got.err
                  /\ exhaustedAt' = IF t = "ok" THEN queue[i].ID ELSE exhaustedAt
             ELSE /\ pc' = "loop"
                  /\ UNCHANGED <<err, exhaustedAt>>
    /\ UNCHANGED <<comp, srvVars, fixVars, queue, i, history, shows, requested, extra,
                   fetchedFor, fixLog, waitVars, cleanVars>>

\* a call of FixFailedShows
InitLoad == Init /\ comp = "FixFailedShows"

\* the steps of FixFailedShows, the page numbers not capped
NextLive ==
    \/ LoadStart
    \/ LoadSkip
    \/ LoadScan
    \/ LoadFetch
    \/ LoadFetchPastCap
    \/ LoadReturn
    \/ FixOne
    \/ FixPanic
    \/ FixReturn

\* the program is sequential and always takes its next step
LiveSpec == InitLoad /\ [][NextLive]_vars /\ WF_vars(NextLive)

(* ------------------------------ claims -------------------------------- *)
\* the claims' own reading of "completed and flagged as warning"
CompletedWithWarning(q) ==
    q.Status = "Completed" /\ q.TrackedDownloadStatus = "Warning"

FixFailedShowsReturned ==
    comp = "FixFailedShows" /\ pc = "returned" /\ err = "nil"

\* C1: after FixFailedShows has run, every show whose FixNaming returned no
\* error has HasBeenRenamed = TRUE in the returned shows.
C1_RenamedInReturnedShows ==
    FixFailedShowsReturned =>
        \A k \in DOMAIN fixLog : fixLog[k].nil => shows[k].HasBeenRenamed

\* C2: when the history source reports no further pages for an unmatched
\* candidate, loadFailedShows does not fail: it goes on to the next entry, and
\* every later candidate with a matching history record is emitted.
C2_ExhaustionAbandonsOneEntry ==
    exhaustedAt # 0 =>
        /\ ~ (pc = "returned" /\ err # "nil")
        /\ pc \in {"fix", "returned"} =>
              \A n \in DOMAIN queue :
                 (/\ n > exhaustedAt
                  /\ CompletedWithWarning(queue[n])
                  /\ \E m \in DOMAIN srvHistory : SameShow(queue[n], srvHistory[m]))
                 => \E k \in DOMAIN shows : shows[k].QueueElement.ID = queue[n].ID

\* C3: loadFailedShows terminates for every queue and every history source.
C3_LoadTerminates ==
    (comp = "FixFailedShows") ~> (pc \in {"fix", "panicked", "returned"})

\* C4: a Show is emitted only for a queue entry that is Completed and Warning,
\* and no history page is fetched on behalf of any other entry.
C4_OnlyCandidates ==
    /\ \A k \in DOMAIN shows : CompletedWithWarning(shows[k].QueueElement)
    /\ \A n \in fetchedFor : CompletedWithWarning(queue[n])

\* C4 witness: the run returned, an entry that is only Completed and shares its
\* key with a history record was passed over, another entry was emitted after a
\* page was fetched for it.
C4_Witness ==
    /\ FixFailedShowsReturned
    /\ shows # << >> /\ fetchedFor # {}
    /\ \E n \in DOMAIN queue :
          /\ queue[n].Status = "Completed" /\ queue[n].TrackedDownloadStatus = "Ok"
          /\ \E m \in DOMAIN history.Records : SameShow(queue[n], history.Records[m])

\* the history pages that hold records, or one page when there is none
TotalPages == IF NumPages = 0 THEN 1 ELSE NumPages

\* C5: the page numbers requested in one run are 1, 2, 3, ... (strictly
\* increasing, none twice), and the pages fetched for one unmatched candidate
\* are at most the total number of history pages.
C5_PagesIncreaseAndBounded ==
    /\ \A n \in DOMAIN requested : requested[n] = n
    /\ extra <= TotalPages

\* C6: at most one Show is emitted per queue entry.
C6_OneShowPerEntry ==
    \A n \in DOMAIN queue :
        Cardinality({k \in DOMAIN shows : shows[k].QueueElement.ID = queue[n].ID}) <= 1

InWait == pc \in {"submit", "poll"}

PollsPerAttempt == MaxTime \div CheckInterval

\* C7: once a poll has read state completed, ExecuteCommandAndWait has returned
\* nil with no poll and no submission after it; when that was on the first
\* attempt, there was exactly one submission and between 1 and 6 polls.
C7_CompletedReturnsAtOnce ==
    completedAt.polls # 0 =>
        /\ ~ InWait
        /\ werr = "nil"
        /\ polls = completedAt.polls
        /\ submissions = completedAt.submissions
        /\ completedAt.submissions = 1 =>
              (submissions = 1 /\ polls = pollsThis /\ polls \in 1..PollsPerAttempt)

\* C7 witness: completed read on the 6th poll of the first attempt, and returned.
C7_Witness ==
    /\ comp = "ExecuteCommandAndWait" /\ pc = "returned" /\ werr = "nil"
    /\ submissions = 1 /\ polls = 6
    /\ completedAt = [submissions |-> 1, polls |-> 6]

WaitStarted ==
    comp \in {"ExecuteCommandAndWait", "CleanFixedShows"} /\ pc # "start"

\* C8: with retries R, ExecuteCommandAndWait makes at most R submissions and at
\* most 6 polls after each; when no poll read completed it ends after exactly R
\* submissions with the 'not completed' error; it returns nil only after a poll
\* read completed; and it always ends: while it runs it can take a step, and
\* every step is one more submission or poll, or the return.
C8_RetriesBoundedThenError ==
    /\ [](WaitStarted =>
            /\ submissions <= retries
            /\ pollsThis <= PollsPerAttempt
            /\ (~ InWait /\ completedAt.polls = 0) =>
                  (/\ werr = "timeout checking command, not completed"
                   /\ submissions = retries)
            /\ (~ InWait /\ werr = "nil") => completedAt.polls # 0
            /\ InWait => ENABLED (WaitSubmit \/ WaitPoll \/ WaitGiveUp))
    /\ [][InWait => (submissions' + polls' > submissions + polls \/ ~ InWait')]_vars

\* C8 witness: three submissions, each polled six times, then the error.
C8_Witness ==
    /\ comp = "ExecuteCommandAndWait" /\ pc = "returned"
    /\ retries = 3 /\ submissions = 3 /\ polls = 18
    /\ completedAt.polls = 0
    /\ werr = "timeout checking command, not completed"

\* C9: a 401 answer to a submission or to a poll is fatal: no request follows
\* it, and the caller gets 'authorization invalid'.
C9_AuthDeniedIsFatal ==
    auth # "none" =>
        /\ auth = "denied"
        /\ ~ InWait
        /\ werr = "authorization invalid"

\* the queue ids of the renamed and detected items among the first n, in order
DueIDs(n) ==
    LET due == SelectSeq(SubSeq(mediaFiles, 1, n),
                         LAMBDA m : m.HasBeenRenamed /\ m.Detected)
    IN  [k \in DOMAIN due |-> due[k].QueueElement.ID]

\* how many of the renamed and detected items the server refuses to delete
FailingDue ==
    Cardinality({n \in DOMAIN mediaFiles :
                    /\ mediaFiles[n].HasBeenRenamed /\ mediaFiles[n].Detected
                    /\ mediaFiles[n].DeleteStatus # 200})

\* C10: after a successful rescan, DeleteQueueItem is called once, in list
\* order, for every renamed and detected item, whatever failed before; the
\* result is nil iff no deletion failed, and otherwise the joined errors hold
\* one entry per failed deletion.
C10_EveryDueItemDeletedOnce ==
    comp = "CleanFixedShows" =>
        /\ pc = "items" => attempts = DueIDs(ci - 1)
        /\ (pc = "returned" /\ werr = "nil") =>
              /\ attempts = DueIDs(Len(mediaFiles))
              /\ Len(errors) = FailingDue
              /\ (err = "nil") <=> (FailingDue = 0)

\* C10 witness: three renamed and detected items, the second refused: all three
\* were attempted and the joined errors hold one entry.
C10_Witness ==
    /\ comp = "CleanFixedShows" /\ pc = "returned" /\ werr = "nil"
    /\ Len(mediaFiles) = 3
    /\ \A n \in 1..3 : mediaFiles[n].HasBeenRenamed /\ mediaFiles[n].Detected
    /\ mediaFiles[1].DeleteStatus = 200
    /\ mediaFiles[2].DeleteStatus = 500
    /\ mediaFiles[3].DeleteStatus = 200
    /\ attempts = <<1, 2, 3>>
    /\ Len(errors) = 1
    /\ err = "joined errors"

FixNamingReturned == comp = "FixNaming" /\ pc = "returned"

\* moveFromTo returned the error of its open, create or copy step
MoveFailedBeforeRemove ==
    /\ FixNamingReturned
    /\ err \in {"couldn't open source file", "couldn't open dest file",
                "writing to output file failed"}

\* C11: when the copy step of moveFromTo has failed, the destination is absent
\* or holds the full content of the source.
C11_NoPartialDestination ==
    (FixNamingReturned /\ err = "writing to output file failed") =>
        \/ newPath \notin DOMAIN fs
        \/ fs[newPath] = fs0[oldPath]

\* C12: when opening the source, creating the destination or copying has
\* failed, moveFromTo has returned an error and the source still exists with
\* the content it had; the source is removed only after the copy has completed
\* without error.
C12_SourceKeptUnlessCopied ==
    /\ [](MoveFailedBeforeRemove =>
            /\ err # "nil"
            /\ oldPath \in DOMAIN fs
            /\ fs[oldPath] = fs0[oldPath])
    /\ [][(oldPath \in DOMAIN fs /\ oldPath \notin DOMAIN fs') => pc = "remove"]_vars

\* C13: every call of FixNaming returns, whatever step fails; when it has
\* returned, HasBeenRenamed is set only if it returned nil, and after any
\* failed step it returned an error with HasBeenRenamed false; when the
\* deletion of the source failed after a complete copy, the error is returned
\* and the content is at both paths.
C13_RenamedOnlyOnFullSuccess ==
    comp = "FixNaming" =>
        /\ pc # "panicked"
        /\ pc = "returned" =>
              /\ recv.HasBeenRenamed <=> err = "nil"
              /\ err = "Failed removing original file" =>
                    /\ oldPath \in DOMAIN fs /\ fs[oldPath] = fs0[oldPath]
                    /\ newPath \in DOMAIN fs /\ fs[newPath] = fs0[oldPath]

\* the errors of the queue fetch and of the history fetches
MatcherErrors ==
    {"network error", "authorization invalid",
     "history fetched 0 results, no more items"}

\* C14: a failure inside FixNaming on one show does not end FixFailedShows:
\* the run goes on; when it has returned nil, FixNaming was called once on
\* every matched show, in the matcher's order, and the list returned is the
\* matcher's; when it has returned an error, the error is one of the queue or
\* history fetch and FixNaming was not called.
C14_FixFailureIsRecoverable ==
    /\ [](comp = "FixFailedShows" =>
            /\ pc # "panicked"
            /\ pc = "returned" =>
                  /\ err = "nil" =>
                        /\ Len(fixLog) = Len(shows)
                        /\ \A k \in DOMAIN shows :
                              fixLog[k].id = shows[k].QueueElement.ID
                  /\ err # "nil" => (err \in MatcherErrors /\ fixLog = << >>))
    /\ [][(comp = "FixFailedShows" /\ pc = "fix") => shows' = shows]_vars

\* C15: CleanFixedShows calls DeleteQueueItem only after the rescan command
\* was submitted and read as completed, with ExecuteCommandAndWait returning
\* nil; when the rescan has failed, CleanFixedShows has returned the rescan's
\* error and called DeleteQueueItem for no item.
C15_NoDeletionBeforeRescan ==
    comp = "CleanFixedShows" =>
        /\ attempts # << >> =>
              (/\ werr = "nil" /\ completedAt.polls # 0
               /\ pc \in {"items", "returned"})
        /\ (pc \in {"items", "returned"} /\ werr # "nil") =>
              (pc = "returned" /\ err = werr /\ attempts = << >>)

\* C15 witness: the rescan ran out of retries with a renamed and detected item
\* in the list; its error was returned and nothing was deleted.
C15_Witness ==
    /\ comp = "CleanFixedShows" /\ pc = "returned"
    /\ werr = "timeout checking command, not completed" /\ err = werr
    /\ \E n \in DOMAIN mediaFiles :
          mediaFiles[n].HasBeenRenamed /\ mediaFiles[n].Detected
    /\ attempts = << >>

\* the item DeleteQueueItem was called for at its k-th call
Attempted(k) == mediaFiles[attempts[k]]

\* C16: DeleteQueueItem is called only for items that are renamed and
\* detected; an item that is not renamed, or renamed and not detected, is
\* never passed to it and adds nothing to the error returned: the errors are
\* those of the refused deletions, and the result is nil when none was refused.
C16_OnlyRenamedAndDetectedDeleted ==
    comp = "CleanFixedShows" =>
        /\ \A k \in DOMAIN attempts :
              Attempted(k).HasBeenRenamed /\ Attempted(k).Detected
        /\ Len(errors) =
              Cardinality({k \in DOMAIN attempts : Attempted(k).DeleteStatus # 200})
        /\ (pc = "returned" /\ werr = "nil" /\ errors = << >>) => err = "nil"

\* C16 witness: an item not renamed, an item renamed and not detected (the
\* server would refuse to delete either) and an item renamed and detected: only
\* the third was deleted, and the result is nil.
C16_Witness ==
    /\ comp = "CleanFixedShows" /\ pc = "returned" /\ werr = "nil"
    /\ Len(mediaFiles) = 3
    /\ ~ mediaFiles[1].HasBeenRenamed /\ mediaFiles[1].DeleteStatus = 500
    /\ mediaFiles[2].HasBeenRenamed /\ ~ mediaFiles[2].Detected
    /\ mediaFiles[2].DeleteStatus = 500
    /\ mediaFiles[3].HasBeenRenamed /\ mediaFiles[3].Detected
    /\ attempts = <<3>>
    /\ err = "nil"

\* t holds, from position p, a separator, n tag characters and a separator
FragmentAt(t, p, n) ==
    /\ p >= 1 /\ p + n + 1 <= Len(t)
    /\ t[p] \in {".", "-", "_", " "}
    /\ \A k \in 1..n :
          t[p + k] \in {"0", "1", "2", "3", "4", "5", "6", "7", "8", "9",
                        "s", "S", "e", "E", "x", "X", "-", "_"}
    /\ t[p + n + 1] \in {".", "-", "_", " "}

\* where t holds a fragment with a tag of lo to 10 characters
FragmentStarts(t, lo) == {p \in 1..Len(t) : \E n \in lo..10 : FragmentAt(t, p, n)}

\* the number n with zeros in front up to two digits
TwoDigits(n) == IF n < 10 THEN <<"0", Digit(n)>> ELSE Itoa(n)

\* '.S<season>E<episode>.'
TagFor(s) ==
    <<".", "S">> \o TwoDigits(s.SeasonNumber) \o <<"E">>
    \o TwoDigits(s.EpisodeNumber) \o <<".">>

\* guessFinalName was called on a receiver whose status messages are not one
SubstitutionCalled ==
    /\ comp = "guessFinalName" /\ names # << >>
    /\ Len(recv.StatusMessages) # 1

\* what C17 says of the first call, for tags of lo to 10 characters
FinalNameAsClaimed(lo) ==
    LET t == recv.SourceTitle
        starts == FragmentStarts(t, lo)
    IN  IF starts = {}
        THEN names[1].err = "unable to guess final episode name"
        ELSE /\ names[1].err = "nil"
             /\ LET p == CHOOSE q \in starts : \A r \in starts : q <= r
                IN  \E n \in lo..10 :
                       /\ FragmentAt(t, p, n)
                       /\ names[1].name =
                             SubSeq(t, 1, p - 1) \o TagFor(recv)
                             \o SubSeq(t, p + n + 2, Len(t))

\* C17 as stated: for a number of status messages other than one,
\* guessFinalName succeeds exactly when the source title holds a separator, 1
\* to 10 tag characters and a separator, and returns the title with the
\* leftmost such fragment replaced by '.S<ss>E<ee>.'; otherwise it fails with
\* the 'unable to guess final name' error.
C17_OneToTenTag == SubstitutionCalled => FinalNameAsClaimed(1)

\* C17, amended: the same with a tag of 2 to 10 characters.
C17_TwoToTenTag == SubstitutionCalled => FinalNameAsClaimed(2)

\* C17 witness: "a.1111111111.a" (a tag of 10 digits), two status messages,
\* season 12 and episode 5: the name returned is "a.S12E05.a".
C17_Witness ==
    /\ SubstitutionCalled
    /\ recv.SourceTitle = RunTitle(10)
    /\ Len(recv.StatusMessages) = 2
    /\ names[1] = [name |-> <<"a", ".", "S", "1", "2", "E", "0", "5", ".", "a">>,
                   err |-> "nil"]

\* what C18 says of the second call
SecondCallAsClaimed ==
    LET first == CHOOSE q \in FragmentStarts(recv.SourceTitle, 2) :
                    \A r \in FragmentStarts(recv.SourceTitle, 2) : q <= r
        out == names[1].name
    IN  /\ names[2].err = "nil"
        /\ FragmentStarts(out, 2) # {}
        /\ \A r \in FragmentStarts(out, 2) : first <= r
        /\ SubSeq(out, first, first + Len(TagFor(recv)) - 1) = TagFor(recv)
        /\ FragmentAt(out, first, Len(TagFor(recv)) - 2)
        /\ names[2].name = out

\* C18 as stated: when the substitution has succeeded on a source title and is
\* applied again, with the same season and episode, to the name it returned,
\* it matches again, its first match is the '.S<ss>E<ee>.' fragment the first
\* call wrote, and it returns the same name.
C18_FinalNameIdempotent ==
    (SubstitutionCalled /\ Len(names) = 2) => SecondCallAsClaimed

\* C18, amended: the same for seasons and episodes whose 'S<ss>E<ee>' has at
\* most 10 characters.
C18_IdempotentUpToTenChars ==
    (SubstitutionCalled /\ Len(names) = 2 /\ Len(TagFor(recv)) - 2 <= 10) =>
        SecondCallAsClaimed

\* C18 witness: "a.11-" with season 2023 and episode 1001 became
\* "a.S2023E1001." (a tag of 10 characters), and the second call returned
\* the same.
C18_Witness ==
    /\ SubstitutionCalled /\ Len(names) = 2
    /\ recv.SourceTitle = <<"a", ".", "1", "1", "-">>
    /\ recv.SeasonNumber = 2023 /\ recv.EpisodeNumber = 1001
    /\ names[1].name = <<"a", ".", "S", "2", "0", "2", "3", "E", "1", "0", "0",
                         "1", ".">>
    /\ names[2] = names[1]

\* C19: a submission that returns an error uses up one attempt and is followed
\* at once by the next submission or by the final failure: the attempt is not
\* polled and not waited for.  Polls are made only in the polling loop, which
\* is entered only after a submission without error.
C19_FailedSubmissionNotPolled ==
    /\ []((WaitStarted /\ pc = "poll" /\ pollsThis = 0) => werr = "nil")
    /\ [][(submissions' = submissions + 1 /\ werr' # "nil") =>
             (/\ wi' = wi + 1 /\ pc' = "submit"
              /\ polls' = polls /\ totalWait' = totalWait)]_vars
    /\ [][polls' # polls => pc = "poll"]_vars
    /\ [][pc = "submit" =>
             (submissions' = submissions + 1 \/ pc' \notin {"submit", "poll"})]_vars

\* C19 witness: the first submission failed, the second one followed with no
\* poll in between and was accepted.
C19_Witness ==
    /\ comp = "ExecuteCommandAndWait" /\ pc = "poll"
    /\ submissions = 2 /\ polls = 0 /\ wi = 1 /\ srvCmds = 1

\* C20: within one attempt every poll asks about the command id that the
\* attempt's submission returned, also after a poll that failed.
C20_PollsQuerySubmittedId ==
    (WaitStarted /\ pollsThis > 0) => queried = srvCmds

====
